---- MODULE Spec2Model ----
(***************************************************************************)
(* Model of src/app.py: the Flask driving-distance application.            *)
(*                                                                         *)
(* Strings that the code inspects character by character (postcodes:       *)
(* str.strip, urllib.parse.quote) are sequences of one-character strings.  *)
(* Python's None and the empty results of the helpers are the empty tuple, *)
(* which is falsy exactly as None is in `if coords:` / `if route:`.        *)
(* The two external HTTP services are the environment: every call's        *)
(* success or failure is an input of the step that makes the call.         *)
(***************************************************************************)
EXTENDS Integers, Sequences, FiniteSets, TLC

\* ------------------------------------------------------------------ bounds
MaxOrigins == 2     \* rows of the uploaded spreadsheet
MaxCatalog == 2     \* entries of destinations.json

None == <<>>
NaN == <<"NaN">>    \* an empty spreadsheet cell as pandas reads it

\* Entries destinations.json may hold.  Two entries share a postcode with
\* different metadata: nothing in the loader forbids it.
DestPool ==
  { [postcode |-> <<"L","S">>, agency |-> "Acme BRAC",  city |-> "Leeds"],
    [postcode |-> <<"Y","O">>, agency |-> "York Safe",  city |-> "York"],
    [postcode |-> <<"L","S">>, agency |-> "Leeds East", city |-> "Bradford"] }

RECURSIVE SeqsUpTo(_, _)
SeqsUpTo(S, n) ==
  IF n = 0 THEN { <<>> }
  ELSE LET shorter == SeqsUpTo(S, n - 1)
       IN shorter \cup { Append(s, x) : s \in { t \in shorter : Len(t) = n - 1 }, x \in S }

Catalogs == SeqsUpTo(DestPool, MaxCatalog)

\* Cells of the spreadsheet's `origin` column, and values of the Origin field.
OriginCells == { NaN, <<" ","A"," ">>, <<" ">> }
OriginFields == { <<>>, <<" ">>, <<"A">>, <<" ","L","S"," ">> }

VARIABLES
  data,         \* data["destinations"] as loaded from destinations.json
  DEST_COORDS,  \* the dict, as its (key, value) items in insertion order
  pc,           \* "warmup" while the module body runs, then "idle"/"responded"
  warm_i,       \* position of the pre-cache loop in DESTINATIONS
  warmLog,      \* history: the geocode calls of the pre-cache loop
  request,      \* the request last handled
  response,     \* what render_template_string was given for it
  geoCalls,     \* history: geocoding URLs requested while handling it
  routeCalls    \* history: (origin occurrence, destination) pairs routed

vars == <<data, DEST_COORDS, pc, warm_i, warmLog, request, response, geoCalls, routeCalls>>

\* ------------------------------------------------------- module-level data
DESTINATIONS == [i \in 1..Len(data) |-> data[i].postcode]

\* A dict comprehension keeps, for a repeated key, the value written last.
LastIndex(p) ==
  CHOOSE i \in 1..Len(data) :
    /\ data[i].postcode = p
    /\ \A j \in (i+1)..Len(data) : data[j].postcode # p

FirstIndex(p) ==
  CHOOSE i \in 1..Len(data) :
    /\ data[i].postcode = p
    /\ \A j \in 1..(i-1) : data[j].postcode # p

CatalogPostcodes == { data[i].postcode : i \in 1..Len(data) }

AGENCY_MAP_first == [p \in CatalogPostcodes |-> data[FirstIndex(p)].agency]
AGENCY_MAP == [p \in CatalogPostcodes |-> data[LastIndex(p)].agency]
CITY_MAP == [p \in CatalogPostcodes |-> data[LastIndex(p)].city]

DictGet(m, k, default) == IF k \in DOMAIN m THEN m[k] ELSE default

\* ------------------------------------------------------------ dict helpers
Keys(items) == { items[i].key : i \in 1..Len(items) }
Lookup(items, k) == (CHOOSE i \in 1..Len(items) : items[i].key = k)
ValueOf(items, k) == items[Lookup(items, k)].value

DictSet_list(items, k, v) == Append(items, [key |-> k, value |-> v])
DictSet_front(items, k, v) ==
  IF k \in Keys(items)
  THEN [i \in 1..Len(items) |-> IF items[i].key = k THEN [key |-> k, value |-> v] ELSE items[i]]
  ELSE <<[key |-> k, value |-> v]>> \o items
\* d[k] = v : an existing key keeps its position, a new key goes last.
DictSet(items, k, v) ==
  IF k \in Keys(items)
  THEN [i \in 1..Len(items) |-> IF items[i].key = k THEN [key |-> k, value |-> v] ELSE items[i]]
  ELSE Append(items, [key |-> k, value |-> v])

\* ------------------------------------------------------------ str helpers
RECURSIVE lstrip(_)
lstrip(s) == IF s # <<>> /\ Head(s) = " " THEN lstrip(Tail(s)) ELSE s
RECURSIVE rstrip(_)
rstrip(s) == IF s # <<>> /\ s[Len(s)] = " " THEN rstrip(SubSeq(s, 1, Len(s) - 1)) ELSE s

strip_none(s) == s
strip(s) == rstrip(lstrip(s))

\* urllib.parse.quote: a space becomes %20, letters pass through.
RECURSIVE quote(_)
quote(s) ==
  IF s = <<>> THEN <<>>
  ELSE (IF Head(s) = " " THEN <<"%","2","0">> ELSE <<Head(s)>>) \o quote(Tail(s))

\* ------------------------------------------------------- external services
\* postcodes.io, when it answers with status 200: one coordinate per postcode.
PostcodesIo(postcode) == << <<"lat", postcode>>, <<"lon", postcode>> >>
\* OSRM, when it answers with a route: metres and seconds.
Osrm(lat1, lon1, lat2, lon2) == [distance |-> 15000, duration |-> 1230]

GeocodeUrl(postcode) == quote(postcode)

\* ok: the GET succeeded, the body was JSON with status 200 and a result.
geocode(postcode, ok) == IF ok THEN PostcodesIo(postcode) ELSE None

\* ok: the GET succeeded and the body had a non-empty routes list.
\* The two numbers are kept exact, as <<numerator, denominator>>.
get_route(lat1, lon1, lat2, lon2, ok) ==
  IF ok
  THEN LET route == Osrm(lat1, lon1, lat2, lon2)
       IN << <<route.distance, 1000>>, <<route.duration, 60>> >>
  ELSE None

\* f"{x:.1f}" of the exact quotient q[1]/q[2], as <<integer part, tenth>>.
\* Ties are rounded to even; the service values modelled produce none.
Fmt1(q) ==
  LET n == 10 * q[1]
      d == q[2]
      lo == n \div d
      r2 == 2 * (n % d)
      t == IF r2 > d \/ (r2 = d /\ lo % 2 = 1) THEN lo + 1 ELSE lo
  IN <<t \div 10, t % 10>>

\* ------------------------------------------------------------- the handler
NoCalls == [rows |-> <<>>, geoCalls |-> <<>>, routeCalls |-> <<>>]

\* rows.append({...}).  occ is a history field, not rendered: the position of
\* the row's origin in the column the request iterated.
Row(occ, origin_pc, dest_pc, route) ==
  [occ    |-> occ,
   origin |-> origin_pc,
   dest   |-> dest_pc,
   agency |-> DictGet(AGENCY_MAP, dest_pc, "Unknown"),
   city   |-> DictGet(CITY_MAP, dest_pc, "Unknown"),
   dist   |-> Fmt1(route[1]),
   time   |-> Fmt1(route[2])]

\* DEST_COORDS.items()
DestItems(cache) == cache

\* A loop over DESTINATIONS that geocodes again what the cache is missing.
RECURSIVE DestLoop_retry(_, _, _, _, _, _)
DestLoop_retry(items, k, occ, origin_pc, origin_coords, routeOK) ==
  IF k > Len(items)
  THEN [NoCalls EXCEPT !.geoCalls =
          [j \in 1..Len(SelectSeq(DESTINATIONS, LAMBDA d : d \notin Keys(items))) |->
             GeocodeUrl(SelectSeq(DESTINATIONS, LAMBDA d : d \notin Keys(items))[j])]]
  ELSE LET dest_pc == items[k].key
           dest_coords == items[k].value
           route == get_route(origin_coords[1], origin_coords[2],
                              dest_coords[1], dest_coords[2], routeOK[<<occ, dest_pc>>])
           rest == DestLoop_retry(items, k + 1, occ, origin_pc, origin_coords, routeOK)
       IN [rows       |-> (IF route # None THEN <<Row(occ, origin_pc, dest_pc, route)>> ELSE <<>>)
                          \o rest.rows,
           geoCalls   |-> rest.geoCalls,
           routeCalls |-> <<[occ |-> occ, dest |-> dest_pc]>> \o rest.routeCalls]

\* for dest_pc, dest_coords in DEST_COORDS.items(): ... from item k on.
RECURSIVE DestLoop(_, _, _, _, _, _)
DestLoop(items, k, occ, origin_pc, origin_coords, routeOK) ==
  IF k > Len(items) THEN NoCalls
  ELSE LET dest_pc == items[k].key
           dest_coords == items[k].value
           route == get_route(origin_coords[1], origin_coords[2],
                              dest_coords[1], dest_coords[2], routeOK[<<occ, dest_pc>>])
           rest == DestLoop(items, k + 1, occ, origin_pc, origin_coords, routeOK)
       IN [rows       |-> (IF route # None THEN <<Row(occ, origin_pc, dest_pc, route)>> ELSE <<>>)
                          \o rest.rows,
           geoCalls   |-> rest.geoCalls,
           routeCalls |-> <<[occ |-> occ, dest |-> dest_pc]>> \o rest.routeCalls]

\* df["origin"].dropna()
dropna(cells) == SelectSeq(cells, LAMBDA c : c # NaN)

RECURSIVE OriginLoop_abort(_, _, _, _, _)
OriginLoop_abort(column, i, cache, geoOK, routeOK) ==
  IF i > Len(column) THEN NoCalls
  ELSE LET origin_pc == strip(column[i])
           origin_coords == geocode(origin_pc, geoOK[i])
       IN IF origin_coords = None
          THEN [NoCalls EXCEPT !.geoCalls = <<GeocodeUrl(origin_pc)>>]
          ELSE LET inner == DestLoop(DestItems(cache), 1, i, origin_pc, origin_coords, routeOK)
                   rest == OriginLoop_abort(column, i + 1, cache, geoOK, routeOK)
               IN [rows       |-> inner.rows \o rest.rows,
                   geoCalls   |-> <<GeocodeUrl(origin_pc)>> \o inner.geoCalls \o rest.geoCalls,
                   routeCalls |-> inner.routeCalls \o rest.routeCalls]

\* for origin_pc in df["origin"].dropna(): ... from cell i on.
RECURSIVE OriginLoop(_, _, _, _, _)
OriginLoop(column, i, cache, geoOK, routeOK) ==
  IF i > Len(column) THEN NoCalls
  ELSE LET origin_pc == strip(column[i])
           origin_coords == geocode(origin_pc, geoOK[i])
           inner == IF origin_coords = None
                    THEN NoCalls
                    ELSE DestLoop(DestItems(cache), 1, i, origin_pc, origin_coords, routeOK)
           rest == OriginLoop(column, i + 1, cache, geoOK, routeOK)
       IN [rows       |-> inner.rows \o rest.rows,
           geoCalls   |-> <<GeocodeUrl(origin_pc)>> \o inner.geoCalls \o rest.geoCalls,
           routeCalls |-> inner.routeCalls \o rest.routeCalls]

\* render_template_string(PAGE, error=...) and render_template_string(PAGE)
RenderError(msg) == [error |-> msg, rows |-> <<>>]
RenderEmpty == [error |-> "", rows |-> <<>>]

Finish_rows(rows) == [error |-> "", rows |-> rows]
\* if not rows: return error "No valid routes found."; return rows=rows
Finish(rows) ==
  IF rows = <<>> THEN RenderError("No valid routes found.")
  ELSE [error |-> "", rows |-> rows]

Outcome(resp, run) == [response |-> resp, geoCalls |-> run.geoCalls, routeCalls |-> run.routeCalls]

\* index(): the response and the calls made, for request req with cache.
index(req, cache) ==
  IF req.method = "POST"
  THEN IF req.file = "present"
       THEN IF req.excel = "unreadable" THEN Outcome(RenderError("Excel read error"), NoCalls)
            ELSE IF req.excel = "nocolumn"
            THEN Outcome(RenderError("Excel must contain column named 'origin'"), NoCalls)
            ELSE LET run == OriginLoop(dropna(req.cells), 1, cache, req.geoOK, req.routeOK)
                 IN Outcome(Finish(run.rows), run)
       ELSE LET origin_pc == strip(req.Origin)
            IN IF origin_pc = <<>>
               THEN Outcome(RenderError("Please enter an origin postcode or upload a file."), NoCalls)
               ELSE LET origin_coords == geocode(origin_pc, req.geoOK[1])
                        geo == [NoCalls EXCEPT !.geoCalls = <<GeocodeUrl(origin_pc)>>]
                    IN IF origin_coords = None
                       THEN Outcome(RenderError("Invalid origin postcode."), geo)
                       ELSE LET run == DestLoop(DestItems(cache), 1, 1, origin_pc, origin_coords, req.routeOK)
                            IN Outcome(Finish(run.rows), [run EXCEPT !.geoCalls = geo.geoCalls \o run.geoCalls])
  ELSE Outcome(RenderEmpty, NoCalls)

\* ------------------------------------------------------------------ start-up
WarmStore_always(cache, dest, coords) ==
  DictSet(cache, dest, IF coords # None THEN coords ELSE PostcodesIo(<<>>))
WarmStore_pop(cache, dest, coords) ==
  IF coords # None THEN DictSet(cache, dest, coords)
  ELSE SelectSeq(cache, LAMBDA it : it.key # dest)
\* if coords: DEST_COORDS[dest] = coords
WarmStore(cache, dest, coords) ==
  IF coords # None THEN DictSet(cache, dest, coords) ELSE cache

NoRequest == [method |-> "none", file |-> "absent", excel |-> "ok", cells |-> <<>>,
              Origin |-> <<>>, geoOK |-> <<>>, routeOK |-> <<>>]

Init ==
  /\ data \in Catalogs
  /\ DEST_COORDS = <<>>
  /\ pc = "warmup"
  /\ warm_i = 1
  /\ warmLog = <<>>
  /\ request = NoRequest
  /\ response = RenderEmpty
  /\ geoCalls = <<>>
  /\ routeCalls = <<>>

\* One iteration of `for dest in DESTINATIONS`.
PreCache ==
  /\ pc = "warmup"
  /\ warm_i <= Len(DESTINATIONS)
  /\ \E ok \in BOOLEAN :
       LET dest == DESTINATIONS[warm_i]
           coords == geocode(dest, ok)
       IN /\ DEST_COORDS' = WarmStore(DEST_COORDS, dest, coords)
          /\ warmLog' = Append(warmLog, [postcode |-> dest, ok |-> ok])
  /\ warm_i' = warm_i + 1
  /\ UNCHANGED <<data, pc, request, response, geoCalls, routeCalls>>

\* The loop is over; the count is printed and app.run() starts to serve.
AppRun ==
  /\ pc = "warmup"
  /\ warm_i > Len(DESTINATIONS)
  /\ pc' = "idle"
  /\ UNCHANGED <<data, DEST_COORDS, warm_i, warmLog, request, response, geoCalls, routeCalls>>

Handle(req) ==
  /\ pc = "idle"
  /\ pc' = "responded"
  /\ LET out == index(req, DEST_COORDS)
     IN /\ request' = req
        /\ response' = out.response
        /\ geoCalls' = out.geoCalls
        /\ routeCalls' = out.routeCalls
  /\ UNCHANGED <<data, DEST_COORDS, warm_i, warmLog>>

\* The response is sent and the request's context is discarded; nothing of
\* the request outlives it.
Teardown ==
  /\ pc = "responded"
  /\ pc' = "idle"
  /\ request' = NoRequest
  /\ response' = RenderEmpty
  /\ geoCalls' = <<>>
  /\ routeCalls' = <<>>
  /\ UNCHANGED <<data, DEST_COORDS, warm_i, warmLog>>

Get == Handle([NoRequest EXCEPT !.method = "GET"])

\* The outcomes of the calls a run can make: one geocode per origin, one
\* route per (geocoded origin, cached destination).
GeoOutcomes(n) == [1..n -> BOOLEAN]
RouteOutcomes(n, geoOK) ==
  [{ i \in 1..n : geoOK[i] } \X Keys(DEST_COORDS) -> BOOLEAN]

PostFileUnreadable ==
  Handle([NoRequest EXCEPT !.method = "POST", !.file = "present", !.excel = "unreadable"])

PostFileNoColumn ==
  Handle([NoRequest EXCEPT !.method = "POST", !.file = "present", !.excel = "nocolumn"])

PostFileBatch ==
  \E cells \in SeqsUpTo(OriginCells, MaxOrigins) :
    \E geoOK \in GeoOutcomes(Len(dropna(cells))) :
      \E routeOK \in RouteOutcomes(Len(dropna(cells)), geoOK) :
        Handle([NoRequest EXCEPT !.method = "POST", !.file = "present",
                                 !.cells = cells, !.geoOK = geoOK, !.routeOK = routeOK])

\* No file part, or a file part with an empty filename.
PostSingle ==
  \E file \in {"absent", "emptyname"}, Origin \in OriginFields :
    LET n == IF strip(Origin) = <<>> THEN 0 ELSE 1
    IN \E geoOK \in GeoOutcomes(n) :
         \E routeOK \in RouteOutcomes(n, geoOK) :
           Handle([NoRequest EXCEPT !.method = "POST", !.file = file, !.Origin = Origin,
                                    !.geoOK = geoOK, !.routeOK = routeOK])

Next ==
  \/ PreCache
  \/ AppRun
  \/ Get
  \/ PostFileUnreadable
  \/ PostFileNoColumn
  \/ PostFileBatch
  \/ PostSingle
  \/ Teardown

Spec == Init /\ [][Next]_vars

\* ------------------------------------------------------------------ claims
Posted == request.method = "POST"
FileBatch == Posted /\ request.file = "present" /\ request.excel = "ok"
Single == Posted /\ request.file # "present"
\* The origins the request iterates, before trimming.
Column == IF FileBatch THEN dropna(request.cells) ELSE <<request.Origin>>
Blank(s) == \A k \in 1..Len(s) : s[k] = " "
RowsOfOcc(i) == SelectSeq(response.rows, LAMBDA r : r.occ = i)
Rendered(rows) ==
  [k \in 1..Len(rows) |->
     [origin |-> rows[k].origin, dest |-> rows[k].dest, agency |-> rows[k].agency,
      city |-> rows[k].city, dist |-> rows[k].dist, time |-> rows[k].time]]
RemoveAt(s, i) == SubSeq(s, 1, i - 1) \o SubSeq(s, i + 1, Len(s))
\* The request with occurrence i of its column taken out, every remaining
\* call having the outcome it had.
Without(i) ==
  LET col == RemoveAt(Column, i)
      geo == RemoveAt(request.geoOK, i)
      old(j) == IF j < i THEN j ELSE j + 1
  IN [request EXCEPT
        !.cells = col,
        !.geoOK = geo,
        !.routeOK = [x \in { j \in 1..Len(col) : geo[j] } \X Keys(DEST_COORDS) |->
                       request.routeOK[<<old(x[1]), x[2]>>]]]

\* C1: in a spreadsheet batch an origin whose geocoding returned absent
\* contributes no row and does not abort the request: the rows rendered are
\* exactly those of the same batch without that origin.
C1_FailedOriginIsSkipped ==
  FileBatch =>
    \A i \in 1..Len(Column) :
      ~request.geoOK[i] =>
        /\ RowsOfOcc(i) = <<>>
        /\ response.error \in {"", "No valid routes found."}
        /\ Rendered(response.rows) = Rendered(index(Without(i), DEST_COORDS).response.rows)

C1_Witness ==
  /\ FileBatch
  /\ Len(Column) = 2
  /\ ~request.geoOK[1]
  /\ request.geoOK[2]
  /\ response.rows # <<>>

\* C2 (as stated): in a spreadsheet batch every origin that geocodes has
\* as many rows as there are catalog entries with a cached coordinate and a
\* successful route call.
C2_RowPerCatalogEntry ==
  FileBatch =>
    \A i \in 1..Len(Column) :
      request.geoOK[i] =>
        Len(RowsOfOcc(i)) =
          Cardinality({ k \in 1..Len(data) :
                          /\ data[k].postcode \in Keys(DEST_COORDS)
                          /\ request.routeOK[<<i, data[k].postcode>>] })

\* C2 (amended): in a spreadsheet batch every origin that geocodes has
\* exactly one row per distinct catalog postcode that has a cached coordinate
\* and a successful route call, and no other row.
C2_RowPerCachedPostcode ==
  FileBatch =>
    \A i \in 1..Len(Column) :
      request.geoOK[i] =>
        LET good == { d \in CatalogPostcodes :
                        d \in Keys(DEST_COORDS) /\ request.routeOK[<<i, d>>] }
            mine == RowsOfOcc(i)
        IN /\ Len(mine) = Cardinality(good)
           /\ \A d \in good : Cardinality({ k \in 1..Len(mine) : mine[k].dest = d }) = 1
           /\ \A k \in 1..Len(mine) : mine[k].dest \in good

C2_Witness ==
  /\ FileBatch
  /\ Len(data) = 2
  /\ data[1].postcode = data[2].postcode
  /\ \E k, j \in 1..Len(warmLog) : k # j /\ warmLog[k].ok /\ warmLog[j].ok
  /\ \E i \in 1..Len(Column) : request.geoOK[i] /\ Len(RowsOfOcc(i)) = 1

\* Every pre-cache geocoding attempt for postcode p returned absent.
Unresolved(p) ==
  /\ p \in CatalogPostcodes
  /\ \A k \in 1..Len(warmLog) : warmLog[k].postcode = p => ~warmLog[k].ok

\* C3: a destination postcode whose geocoding returned absent (it has no
\* resolved coordinate) appears in no row and in no route call of any request.
C3_UnresolvedDestinationHasNoRow ==
  Posted =>
    \A p \in CatalogPostcodes :
      Unresolved(p) =>
        /\ \A k \in 1..Len(response.rows) : response.rows[k].dest # p
        /\ \A k \in 1..Len(routeCalls) : routeCalls[k].dest # p

C3_Witness ==
  /\ Posted
  /\ response.rows # <<>>
  /\ \E p \in CatalogPostcodes : Unresolved(p)

NoInput == Single /\ Blank(request.Origin)

\* C4 (as stated): a POST with no uploaded file and a blank Origin field is
\* answered with the error "Enter an origin or upload a file.", no rows and
\* no geocoding or routing call.
C4_NoInputMessageAsSpecified ==
  NoInput =>
    /\ response.error = "Enter an origin or upload a file."
    /\ response.rows = <<>>
    /\ geoCalls = <<>>
    /\ routeCalls = <<>>

\* C4 (amended): a POST with no uploaded file and a blank Origin field is
\* answered with the error "Please enter an origin postcode or upload a
\* file.", no rows and no geocoding or routing call.
C4_NoInputIsRejected ==
  NoInput =>
    /\ response.error = "Please enter an origin postcode or upload a file."
    /\ response.rows = <<>>
    /\ geoCalls = <<>>
    /\ routeCalls = <<>>

C4_Witness ==
  /\ NoInput
  /\ request.Origin = <<" ">>
  /\ Keys(DEST_COORDS) # {}

\* C5 (as stated): every row's destination postcode is the postcode of
\* exactly one catalog entry, and the row's agency and city are that entry's.
C5_RowMatchesExactlyOneEntry ==
  \A k \in 1..Len(response.rows) :
    LET r == response.rows[k]
        entries == { j \in 1..Len(data) : data[j].postcode = r.dest }
    IN /\ Cardinality(entries) = 1
       /\ \A j \in entries : r.agency = data[j].agency /\ r.city = data[j].city

\* C5 (amended): every row's destination postcode is a catalog postcode, and
\* the row's agency and city are those of the last catalog entry with that
\* postcode; the sentinel "Unknown" is never rendered.
C5_RowMatchesLastEntry ==
  \A k \in 1..Len(response.rows) :
    LET r == response.rows[k]
    IN /\ r.agency # "Unknown" /\ r.city # "Unknown"
       /\ \E j \in 1..Len(data) :
            /\ data[j].postcode = r.dest
            /\ \A m \in (j+1)..Len(data) : data[m].postcode # r.dest
            /\ r.agency = data[j].agency
            /\ r.city = data[j].city

C5_Witness ==
  /\ response.rows # <<>>
  /\ Len(data) = 2
  /\ data[1].postcode = data[2].postcode
  /\ response.rows[1].agency = data[2].agency
  /\ response.rows[1].agency # data[1].agency

C7_MissIsGeocoded ==
  (Posted /\ \E i \in DOMAIN request.geoOK : request.geoOK[i]) =>
    \A p \in CatalogPostcodes :
      p \notin Keys(DEST_COORDS) =>
        \E k \in 1..Len(geoCalls) : geoCalls[k] = quote(p)

RequestUrls ==
  IF FileBatch \/ (Single /\ ~Blank(request.Origin))
  THEN [i \in 1..Len(Column) |-> quote(rstrip(lstrip(Column[i])))]
  ELSE <<>>

\* C7 (amended): a request geocodes its origins only, one attempt per
\* origin in input order, and never a catalog destination; a destination
\* without a cache entry is skipped for every origin with no geocoding and no
\* routing attempt, and gets no row.
C7_MissIsSkippedWithoutAttempt ==
  Posted =>
    /\ geoCalls = RequestUrls
    /\ \A k \in 1..Len(routeCalls) : routeCalls[k].dest \in Keys(DEST_COORDS)
    /\ \A k \in 1..Len(response.rows) : response.rows[k].dest \in Keys(DEST_COORDS)

C7_Witness ==
  /\ Posted
  /\ response.rows # <<>>
  /\ \E p \in CatalogPostcodes : p \notin Keys(DEST_COORDS) /\ quote(p) \notin { geoCalls[k] : k \in 1..Len(geoCalls) }

\* C8 (as stated): in a spreadsheet batch a cell that is empty after
\* trimming gets no geocoding call and no row: geocoding is called for the
\* other cells only.
C8_BlankOriginNotGeocoded ==
  FileBatch =>
    /\ Len(geoCalls) = Len(SelectSeq(Column, LAMBDA c : ~Blank(c)))
    /\ \A i \in 1..Len(Column) : Blank(Column[i]) => RowsOfOcc(i) = <<>>

C10_ErrorXorRows ==
  Posted =>
    \/ response.error # "" /\ response.rows = <<>>
    \/ response.error = "" /\ response.rows # <<>>

C10_Witness ==
  /\ Posted
  /\ routeCalls # <<>>
  /\ response.rows = <<>>
  /\ response.error = "No valid routes found."

====
